---- MODULE Spec2Model ----
(***************************************************************************)
(* OP_Scribe: the on-chain file registry (contract OPScribe).              *)
(*                                                                         *)
(* Representation.                                                         *)
(*  - A string is the sequence of its UTF-8 bytes (String.UTF8.encode is   *)
(*    the representation map; the empty string is << >>).                  *)
(*  - A u256 is a natural number below U256Mod.  The 256-bit cell of the   *)
(*    source (32 bytes, four 64-bit words) is scaled to SlotBytes bytes,   *)
(*    i.e. four words of WordBits = 2 * SlotBytes bits.  All arithmetic of *)
(*    the source that wraps (the u64 accumulators of cidToKey) wraps here  *)
(*    modulo 2^WordBits, which is the exact image of the 64-bit computation*)
(*    under "keep the low WordBits bits": identifiers whose keys are equal *)
(*    in the source have equal keys here.  Arithmetic that fails closed    *)
(*    (SafeMath) reverts at U256Mod.                                       *)
(*  - The stride between two ordinal regions of cidChunks (256 cells in    *)
(*    the source) is scaled to Stride cells.                               *)
(*  - A Revert of the runtime discards every write of the call: a handler  *)
(*    that reverts returns the storage it was called with.                 *)
(***************************************************************************)
EXTENDS Integers, Sequences, FiniteSets, TLC

\* Bytes per storage cell (32 in the source: U256_BYTE_LENGTH, chunks of 32 bytes).
SlotBytes == 2
\* Cells reserved per ordinal in cidChunks (256 in the source, line 264).
Stride == 4

\* Low 16 bits of the two 64-bit mixing constants of cidToKey.
FNV_OFFSET_BASIS == 8997
FNV_PRIME == 435

WordBits == 2 * SlotBytes
WordMod == 2 ^ WordBits
U256Mod == WordMod * WordMod * WordMod * WordMod
ByteMod == 2 ^ 8

----------------------------------------------------------------------------
(* The storage of the contract and the history of its calls *)

VARIABLES
    paused,          \* StoredBoolean, pointer 0
    totalFiles,      \* StoredU256, pointer 1
    fileSizes,       \* StoredMapU256: cidKey -> size
    fileUploaders,   \* StoredMapU256: cidKey -> uploader
    fileBlocks,      \* StoredMapU256: cidKey -> block number
    fileTimestamps,  \* StoredMapU256: cidKey -> median timestamp
    fileExists,      \* StoredMapU256: cidKey -> 0 or 1
    fileNameChunks,  \* StoredMapU256: cidKey + slot -> chunk
    cidChunks,       \* StoredMapU256: index * Stride + slot -> chunk
    events,          \* the FileRegistered events emitted so far, in order
    registered,      \* history: the registerFile calls that returned (with the key
                     \* they derived), in order
    last             \* history: the last call and its Revert message ("" when it returned)

\* The upload page (one mounted UploadPage) and the wallet of the App
VARIABLES
    selectedFile,    \* useState<File | null>
    stage,           \* useState<UploadStage>
    uploadResult,    \* useState<IpfsUploadResult | null>
    errorMessage,    \* useState<string>
    walletAddress,   \* useState<string> of App, the prop of the page
    uploads,         \* the uploadToIpfs calls awaiting their fetch: the file of each
    ran              \* history: the last handler run on the page

\* The backend process and the request it is answering
VARIABLES
    PINATA_JWT,      \* process.env['PINATA_JWT'] ?? ''
    request,         \* the request being handled, null before the first
    position,        \* where its handler stands: idle, reading, pinning, answered
    delivered,       \* how many chunks of its body the stream has yielded
    totalSize,       \* readBody: totalSize
    bodyChunks,      \* readBody: chunks, the lengths of the chunks kept
    response,        \* what sendJson has sent, null before
    pinned,          \* the files given to pinata.upload.file for this request
    pinataSettled    \* history: what that call settled with, null before

----------------------------------------------------------------------------
(* u256 and u64 helpers *)

\* ~x on one word
not64(x) == (WordMod - 1) - x

RECURSIVE xor(_, _)
\* a ^ b
xor(a, b) ==
    IF a = 0 /\ b = 0 THEN 0
    ELSE ((a + b) % 2) + 2 * xor(a \div 2, b \div 2)

\* new u256(lo1, lo2, hi1, hi2): lo1 is the least significant word
u256(lo1, lo2, hi1, hi2) ==
    lo1 + lo2 * WordMod + hi1 * WordMod * WordMod + hi2 * WordMod * WordMod * WordMod

\* u256.fromBytesBE(arr): arr has SlotBytes bytes, most significant first
fromBytesBE(arr) ==
    LET acc[j \in 0..SlotBytes] ==
            IF j = 0 THEN 0 ELSE acc[j - 1] * ByteMod + arr[j]
    IN  acc[SlotBytes]

\* Faulty variant of toUint8Array: the bytes come out least significant first.
toUint8ArrayLE(v) ==
    [j \in 1..SlotBytes |-> (v \div (ByteMod ^ (j - 1))) % ByteMod]

\* v.toUint8Array(true): the SlotBytes bytes of v, most significant first
toUint8Array(v) ==
    [j \in 1..SlotBytes |-> (v \div (ByteMod ^ (SlotBytes - j))) % ByteMod]

\* Faulty variant of SafeMathMul: the product wraps modulo 2^256.
SafeMathMulWrapping(a, b) == (a * b) % U256Mod

\* SafeMath.add / SafeMath.mul: -1 stands for the Revert on overflow
SafeMathAdd(a, b) == IF a + b >= U256Mod THEN -1 ELSE a + b
SafeMathMul(a, b) == IF a * b >= U256Mod THEN -1 ELSE a * b

\* Faulty variant of mapGet: every cell reads as never written.
mapGetUnwritten(map, key) == 0

\* StoredMapU256.get: a cell never written reads as zero
mapGet(map, key) == IF key \in DOMAIN map THEN map[key] ELSE 0

\* Faulty variant of mapSet: the write forgets every other cell of the map.
mapSetForgetful(map, key, value) == [k \in {key} |-> value]

\* StoredMapU256.set
mapSet(map, key, value) ==
    [k \in (DOMAIN map) \cup {key} |-> IF k = key THEN value ELSE map[k]]

----------------------------------------------------------------------------
(* KeyDeriver *)

RECURSIVE mixLoop(_, _, _, _)
\* The loop of cidToKey from byte i on, with the accumulators hi and lo.
mixLoop(cid, i, hi, lo) ==
    IF i >= Len(cid) THEN [hi |-> hi, lo |-> lo]
    ELSE LET b == cid[i + 1]
         IN  mixLoop(cid, i + 1,
                     (xor(hi, b % WordMod) * (FNV_PRIME % WordMod)) % WordMod,
                     (xor(lo, (b + i) % WordMod) * (FNV_OFFSET_BASIS % WordMod)) % WordMod)

\* Faulty variant of cidToKey: the stored count is mixed into the key.
cidToKeyCounting(cid) ==
    LET acc == mixLoop(cid, 0, (FNV_OFFSET_BASIS + totalFiles) % WordMod, FNV_PRIME % WordMod)
    IN  u256(acc.lo, acc.hi, not64(acc.hi), not64(acc.lo))

cidToKey(cid) ==
    LET acc == mixLoop(cid, 0, FNV_OFFSET_BASIS % WordMod, FNV_PRIME % WordMod)
    IN  u256(acc.lo, acc.hi, not64(acc.hi), not64(acc.lo))

----------------------------------------------------------------------------
(* ChunkedStringStore *)

\* Faulty variant of chunkCount: rounds down, dropping a partial last chunk.
chunkCountFloor(totalLen) == totalLen \div SlotBytes

\* Number of chunk cells of a string of totalLen bytes: (totalLen + 31) / 32
chunkCount(totalLen) == (totalLen + (SlotBytes - 1)) \div SlotBytes

\* storeString(map, baseKey, value): the length goes to the cell baseKey, chunk i
\* (zero-filled, left-packed) to the cell baseKey + i + 1.
\* Result: [revert |-> SafeMath.add overflowed, map |-> the map after the writes
\* made before the throw, or after all of them].
storeString(map, baseKey, value) ==
    LET totalLen == Len(value)
        chunks   == chunkCount(totalLen)
        chunkArr(i) ==
            LET start == i * SlotBytes
                end   == IF start + SlotBytes > totalLen THEN totalLen ELSE start + SlotBytes
            IN  [j \in 1..SlotBytes |-> IF start + j <= end THEN value[start + j] ELSE 0]
        slotKey(i) == SafeMathAdd(baseKey, i + 1)
        done     == Cardinality({ i \in 0..(chunks - 1) : slotKey(i) # -1 })
        written[n \in 0..chunks] ==
            IF n = 0 THEN mapSet(map, baseKey, totalLen)
            ELSE mapSet(written[n - 1], slotKey(n - 1), fromBytesBE(chunkArr(n - 1)))
    IN  [revert |-> done < chunks, map |-> written[done]]

\* Faulty variant of readString: the whole of every chunk cell is returned, the
\* bytes of the last chunk beyond the recorded length included.
readStringWholeChunks(map, baseKey) ==
    LET lengthVal == mapGet(map, baseKey)
        chunks    == chunkCount(lengthVal)
        slotKey(i) == SafeMathAdd(baseKey, i + 1)
        slotBytes(i) == toUint8Array(mapGet(map, slotKey(i)))
    IN  IF lengthVal = 0 THEN [revert |-> FALSE, value |-> << >>]
        ELSE IF \E i \in 0..(chunks - 1) : slotKey(i) = -1
        THEN [revert |-> TRUE, value |-> << >>]
        ELSE [revert |-> FALSE,
              value |-> [j \in 1..(chunks * SlotBytes) |->
                            slotBytes((j - 1) \div SlotBytes)[((j - 1) % SlotBytes) + 1]]]

\* readString(map, baseKey): empty when the length cell is zero; otherwise the
\* first totalLen bytes of the cells baseKey + 1 .. baseKey + chunks, written
\* into a zero-initialised buffer of totalLen bytes.
\* Result: [revert |-> SafeMath.add overflowed, value |-> the decoded string].
readString(map, baseKey) ==
    LET lengthVal == mapGet(map, baseKey)
        totalLen  == lengthVal
        chunks    == chunkCount(totalLen)
        slotKey(i) == SafeMathAdd(baseKey, i + 1)
        slotBytes(i) == toUint8Array(mapGet(map, slotKey(i)))
    IN  IF lengthVal = 0 THEN [revert |-> FALSE, value |-> << >>]
        ELSE IF \E i \in 0..(chunks - 1) : slotKey(i) = -1
        THEN [revert |-> TRUE, value |-> << >>]
        ELSE [revert |-> FALSE,
              value |-> [j \in 1..totalLen |->
                            IF (j - 1) \div SlotBytes < chunks
                            THEN slotBytes((j - 1) \div SlotBytes)[((j - 1) % SlotBytes) + 1]
                            ELSE 0]]

----------------------------------------------------------------------------
(* Inputs *)

\* The identity recorded at deployment (Blockchain.contractDeployer), as a u256.
contractDeployer == 1

\* The ambient environment of one call: Blockchain.tx.sender and Blockchain.block.
Txs == { [sender |-> 1, number |-> 3, medianTimestamp |-> 5],
         [sender |-> 2, number |-> 4, medianTimestamp |-> 6] }

\* One byte more than the Stride - 1 chunk cells between two ordinal bases hold.
LongLen == (Stride - 1) * SlotBytes + 1

CidAC   == <<97, 99>>
CidFV   == <<102, 118>>
CidBaf  == <<98, 97, 102>>
CidLong == [j \in 1..LongLen |-> 96 + j]

\* Identifiers a caller may submit: the empty one, two whose keys collide
\* (CidAC, CidFV), an ordinary one and one longer than an ordinal region.
CIDs == { << >>, CidAC, CidFV, CidBaf, CidLong }

\* File names: the empty one, and one of two full chunks plus one byte.
FileNames == { << >>, [j \in 1..(2 * SlotBytes + 1) |-> 48 + j] }

\* Strings for the chunked store: one of every length from the empty string to
\* two full chunks plus one byte, and strings of zero bytes and of bytes 255.
StringOfLen(n) == [j \in 1..n |-> 64 + j]
ChunkStrings ==
    { StringOfLen(n) : n \in 0..(2 * SlotBytes + 1) }
        \cup { <<0>>, [j \in 1..(SlotBytes + 1) |-> 0], [j \in 1..SlotBytes |-> 255] }

\* Base keys for the chunked store: an ordinal base, the next one, a content key,
\* and the two largest keys.
BaseKeys == { 0, Stride, cidToKey(CidAC), U256Mod - 2, U256Mod - 1 }

\* File sizes: zero and a positive one.
FileSizes == { 0, 2 }

----------------------------------------------------------------------------
(* The contract *)

\* The persisted storage of the contract, as one record.
EmptyStorage ==
    [ paused         |-> FALSE,
      totalFiles     |-> 0,
      fileSizes      |-> << >>,
      fileUploaders  |-> << >>,
      fileBlocks     |-> << >>,
      fileTimestamps |-> << >>,
      fileExists     |-> << >>,
      fileNameChunks |-> << >>,
      cidChunks      |-> << >> ]

\* Faulty variant of Returned: every call that returns logs an event.
ReturnedLogging(st, evs, ret) ==
    [revert |-> "", st |-> st,
     events |-> Append(evs, [fileSize |-> 0, uploader |-> 0]), ret |-> ret]

\* What a handler gives back: the Revert message ("" when it returned), the
\* storage as the handler left it (at its throw or at its return), the events it
\* emitted and the values it returned.
Reverted(st, msg) == [revert |-> msg, st |-> st, events |-> << >>, ret |-> << >>]
Returned(st, evs, ret) == [revert |-> "", st |-> st, events |-> evs, ret |-> ret]

\* abort -> revertOnError: a call that throws persists none of its writes.
Persisted(st, r) == IF r.revert = "" THEN r.st ELSE st

\* Faulty variant of ensureNotPaused: the gate is never consulted.
ensureNotPausedAlways(st) == TRUE

\* ensureNotPaused: TRUE when the call may go on
ensureNotPaused(st) == ~st.paused

\* Faulty variant of onlyDeployer: every caller is accepted.
onlyDeployerAnyone(caller) == TRUE

\* OP_NET.onlyDeployer: TRUE when the caller is the deployer
onlyDeployer(caller) == caller = contractDeployer

\* Faulty variant of validateInputs: the size is not checked.
validateInputsNoSize(cid, fileName, fileSize) ==
    IF Len(cid) = 0 THEN "CID cannot be empty"
    ELSE IF Len(fileName) = 0 THEN "File name cannot be empty"
    ELSE ""

\* Faulty variant of validateInputs: the size is checked first.
validateInputsSizeFirst(cid, fileName, fileSize) ==
    IF fileSize = 0 THEN "File size cannot be zero"
    ELSE IF Len(cid) = 0 THEN "CID cannot be empty"
    ELSE IF Len(fileName) = 0 THEN "File name cannot be empty"
    ELSE ""

\* registerFile, "Validate inputs": the Revert message, "" when the inputs pass
validateInputs(cid, fileName, fileSize) ==
    IF Len(cid) = 0 THEN "CID cannot be empty"
    ELSE IF Len(fileName) = 0 THEN "File name cannot be empty"
    ELSE IF fileSize = 0 THEN "File size cannot be zero"
    ELSE ""

\* Faulty variant of alreadyRegistered: the duplicate check is missing.
alreadyRegisteredNever(st, cidKey) == FALSE

\* Faulty variant of alreadyRegistered: any stored record makes a duplicate.
alreadyRegisteredAnyRecord(st, cidKey) == \E k \in DOMAIN st.fileExists : st.fileExists[k] = 1

\* registerFile, "Check if already registered"
alreadyRegistered(st, cidKey) == mapGet(st.fileExists, cidKey) = 1

\* Faulty variant of storeMetadata: the record is not marked as existing.
storeMetadataNoMark(st, cidKey, fileSize, tx) ==
    [st EXCEPT
        !.fileSizes      = mapSet(@, cidKey, fileSize),
        !.fileUploaders  = mapSet(@, cidKey, fromBytesBE(toUint8Array(tx.sender))),
        !.fileBlocks     = mapSet(@, cidKey, tx.number),
        !.fileTimestamps = mapSet(@, cidKey, tx.medianTimestamp)]

\* registerFile, "Store file metadata" .. "Mark as existing"
storeMetadata(st, cidKey, fileSize, tx) ==
    LET sender      == tx.sender
        senderBytes == toUint8Array(sender)
    IN  [st EXCEPT
            !.fileSizes      = mapSet(@, cidKey, fileSize),
            !.fileUploaders  = mapSet(@, cidKey, fromBytesBE(senderBytes)),
            !.fileBlocks     = mapSet(@, cidKey, tx.number),
            !.fileTimestamps = mapSet(@, cidKey, tx.medianTimestamp),
            !.fileExists     = mapSet(@, cidKey, 1)]

\* Faulty variant of cidBase: the ordinal regions are one cell narrower.
cidBaseNarrow(index) == SafeMathMul(index, Stride - 1)

\* registerFile, "Use index * 256 to space out chunk slots"
cidBase(index) == SafeMathMul(index, Stride)

\* Faulty variant of incrementTotal: the count is written back unchanged.
incrementTotalStale(currentIndex) == currentIndex

\* registerFile, "Increment total file count"
incrementTotal(currentIndex) == SafeMathAdd(currentIndex, 1)

\* FileRegisteredEvent: the data of the event, writeU256(fileSize) then
\* writeAddress(uploader)
FileRegisteredEvent(fileSize, uploader) == [fileSize |-> fileSize, uploader |-> uploader]

\* Faulty variant of emitEvent: the event is dropped.
emitEventDropped(evs, ev) == evs

\* this.emitEvent(ev): ev joins the events of the call
emitEvent(evs, ev) == Append(evs, ev)

\* Faulty variant of registerFile: the existence flag is read first, but the
\* duplicate is rejected only after the metadata has been written.
registerFileLateCheck(st, cid, fileName, fileSize, tx) ==
    IF ~ensureNotPaused(st) THEN Reverted(st, "Contract paused")
    ELSE IF validateInputs(cid, fileName, fileSize) # ""
    THEN Reverted(st, validateInputs(cid, fileName, fileSize))
    ELSE
    LET cidKey       == cidToKey(cid)
        st1          == storeMetadata(st, cidKey, fileSize, tx)
        named        == storeString(st1.fileNameChunks, cidKey, fileName)
        st2          == [st1 EXCEPT !.fileNameChunks = named.map]
        currentIndex == st2.totalFiles
        cidBaseKey   == cidBase(currentIndex)
        indexed      == storeString(st2.cidChunks, cidBaseKey, cid)
        st3          == [st2 EXCEPT !.cidChunks = indexed.map]
        newTotal     == incrementTotal(currentIndex)
        st4          == [st3 EXCEPT !.totalFiles = newTotal]
    IN
    IF alreadyRegistered(st, cidKey) THEN Reverted(st1, "File already registered")
    ELSE IF named.revert THEN Reverted(st2, "SafeMath: addition overflow")
    ELSE IF cidBaseKey = -1 THEN Reverted(st2, "SafeMath: multiplication overflow")
    ELSE IF indexed.revert \/ newTotal = -1
    THEN Reverted(st3, "SafeMath: addition overflow")
    ELSE Returned(st4, emitEvent(<< >>, FileRegisteredEvent(fileSize, tx.sender)), << TRUE >>)

registerFile(st, cid, fileName, fileSize, tx) ==
    IF ~ensureNotPaused(st) THEN Reverted(st, "Contract paused")
    ELSE IF validateInputs(cid, fileName, fileSize) # ""
    THEN Reverted(st, validateInputs(cid, fileName, fileSize))
    ELSE
    LET cidKey == cidToKey(cid)
    IN
    IF alreadyRegistered(st, cidKey) THEN Reverted(st, "File already registered")
    ELSE
    LET st1          == storeMetadata(st, cidKey, fileSize, tx)
        named        == storeString(st1.fileNameChunks, cidKey, fileName)
        st2          == [st1 EXCEPT !.fileNameChunks = named.map]
        currentIndex == st2.totalFiles
        cidBaseKey   == cidBase(currentIndex)
        indexed      == storeString(st2.cidChunks, cidBaseKey, cid)
        st3          == [st2 EXCEPT !.cidChunks = indexed.map]
        newTotal     == incrementTotal(currentIndex)
        st4          == [st3 EXCEPT !.totalFiles = newTotal]
    IN
    IF named.revert THEN Reverted(st2, "SafeMath: addition overflow")
    ELSE IF cidBaseKey = -1 THEN Reverted(st2, "SafeMath: multiplication overflow")
    ELSE IF indexed.revert \/ newTotal = -1
    THEN Reverted(st3, "SafeMath: addition overflow")
    ELSE Returned(st4, emitEvent(<< >>, FileRegisteredEvent(fileSize, tx.sender)), << TRUE >>)

\* Faulty variant of getFile: the size and the block number change places.
getFileSwapped(st, cid) ==
    LET cidKey    == cidToKey(cid)
        exists    == mapGet(st.fileExists, cidKey) = 1
        fileName  == readString(st.fileNameChunks, cidKey)
    IN  IF ~exists THEN Returned(st, << >>, << << >>, 0, 0, 0, 0, FALSE >>)
        ELSE IF fileName.revert THEN Reverted(st, "SafeMath: addition overflow")
        ELSE Returned(st, << >>,
                << fileName.value,
                   mapGet(st.fileBlocks, cidKey),
                   mapGet(st.fileUploaders, cidKey),
                   mapGet(st.fileSizes, cidKey),
                   mapGet(st.fileTimestamps, cidKey),
                   TRUE >>)

getFile(st, cid) ==
    LET cidKey    == cidToKey(cid)
        existsVal == mapGet(st.fileExists, cidKey)
        exists    == existsVal = 1
        fileName  == readString(st.fileNameChunks, cidKey)
    IN  IF ~exists THEN Returned(st, << >>, << << >>, 0, 0, 0, 0, FALSE >>)
        ELSE IF fileName.revert THEN Reverted(st, "SafeMath: addition overflow")
        ELSE Returned(st, << >>,
                << fileName.value,
                   mapGet(st.fileSizes, cidKey),
                   mapGet(st.fileUploaders, cidKey),
                   mapGet(st.fileBlocks, cidKey),
                   mapGet(st.fileTimestamps, cidKey),
                   TRUE >>)

\* Faulty variant of checkFileExists: the comparison is inverted.
checkFileExistsInverted(st, cid) ==
    LET cidKey    == cidToKey(cid)
        existsVal == mapGet(st.fileExists, cidKey)
    IN  Returned(st, << >>, << existsVal = 0 >>)

\* Faulty variant of checkFileExists: every identifier is reported as registered.
checkFileExistsAlways(st, cid) == Returned(st, << >>, << TRUE >>)

checkFileExists(st, cid) ==
    LET cidKey    == cidToKey(cid)
        existsVal == mapGet(st.fileExists, cidKey)
    IN  Returned(st, << >>, << existsVal = 1 >>)

\* Faulty variant of getTotalFiles: the read consults the gate.
getTotalFilesGated(st) ==
    IF st.paused THEN Reverted(st, "Contract paused")
    ELSE Returned(st, << >>, << st.totalFiles >>)

getTotalFiles(st) == Returned(st, << >>, << st.totalFiles >>)

\* Faulty variant of indexOutOfBounds: off by one.
indexOutOfBoundsOffByOne(st, index) == index > st.totalFiles

\* getFileByIndex: index >= this.totalFiles.value
indexOutOfBounds(st, index) == index >= st.totalFiles

getFileByIndex(st, index) ==
    IF indexOutOfBounds(st, index) THEN Reverted(st, "Index out of bounds")
    ELSE
    LET cidBaseKey == cidBase(index)
        cid        == IF cidBaseKey = -1 THEN [revert |-> TRUE, value |-> << >>]
                      ELSE readString(st.cidChunks, cidBaseKey)
        cidKey     == cidToKey(cid.value)
        fileName   == readString(st.fileNameChunks, cidKey)
    IN  IF cidBaseKey = -1 THEN Reverted(st, "SafeMath: multiplication overflow")
        ELSE IF cid.revert \/ fileName.revert
        THEN Reverted(st, "SafeMath: addition overflow")
        ELSE Returned(st, << >>,
                << cid.value,
                   fileName.value,
                   mapGet(st.fileSizes, cidKey),
                   mapGet(st.fileUploaders, cidKey),
                   mapGet(st.fileBlocks, cidKey),
                   mapGet(st.fileTimestamps, cidKey) >>)

\* Faulty variant of pause: the call flips the gate.
pauseToggle(st, sender) ==
    IF ~onlyDeployer(sender) THEN Reverted(st, "Only deployer can call this method")
    ELSE Returned([st EXCEPT !.paused = ~st.paused], << >>, << >>)

pause(st, sender) ==
    IF ~onlyDeployer(sender) THEN Reverted(st, "Only deployer can call this method")
    ELSE Returned([st EXCEPT !.paused = TRUE], << >>, << >>)

\* Faulty variant of unpause: the call returns but the gate stays closed.
unpauseNoOp(st, sender) ==
    IF ~onlyDeployer(sender) THEN Reverted(st, "Only deployer can call this method")
    ELSE Returned(st, << >>, << >>)

unpause(st, sender) ==
    IF ~onlyDeployer(sender) THEN Reverted(st, "Only deployer can call this method")
    ELSE Returned([st EXCEPT !.paused = FALSE], << >>, << >>)

\* Faulty variant of getIsPaused: reading the flag reopens the gate.
getIsPausedResetting(st) == Returned([st EXCEPT !.paused = FALSE], << >>, << st.paused >>)

getIsPaused(st) == Returned(st, << >>, << st.paused >>)

----------------------------------------------------------------------------
(* The upload page of the frontend (component UploadPage) *)

\* Scaled MAX_FILE_SIZE (10 * 1024 * 1024 bytes in types/config.ts and in the backend).
MAX_FILE_SIZE == 3
\* Largest number of uploadToIpfs calls followed at once.
MaxInFlight == 2

\* The null of a useState<... | null>
null == [null |-> TRUE]

\* The File objects a user can pick: an ordinary one, one of exactly the maximum
\* size and without a type, an empty one, and one a byte over the maximum.
Files ==
    { [name |-> "a.txt", size |-> 1, type |-> "text/plain"],
      [name |-> "b.bin", size |-> MAX_FILE_SIZE, type |-> ""],
      [name |-> "empty", size |-> 0, type |-> ""],
      [name |-> "big", size |-> MAX_FILE_SIZE + 1, type |-> ""] }

\* The body of a 200 response of POST /upload for a file sent by uploadToIpfs:
\* the name from X-File-Name, the size of the body, the Content-Type sent.
IpfsUploadResult(file) ==
    [ cid      |-> << "cid of", file.name >>,
      fileName |-> file.name,
      fileSize |-> file.size,
      mimeType |-> IF file.type # "" THEN file.type ELSE "application/octet-stream" ]

\* `Upload failed with status ${response.status}`
UploadFailedWithStatus(status) ==
    CASE status = 500 -> "Upload failed with status 500"
      [] status = 502 -> "Upload failed with status 502"

\* What fetch can settle with: a rejection (no connection), a 200 with the
\* result, an error status with the backend's JSON body, an error status
\* whose body is not JSON (response.json() rejects and {} is taken).
FetchOutcomes(file) ==
    { [rejected |-> TRUE, message |-> "Failed to fetch"],
      [rejected |-> FALSE, ok |-> TRUE, status |-> 200, json |-> IpfsUploadResult(file)],
      [rejected |-> FALSE, ok |-> FALSE, status |-> 500,
       json |-> [error |-> "PINATA_JWT not configured on server"]],
      [rejected |-> FALSE, ok |-> FALSE, status |-> 502, json |-> [none |-> TRUE]] }

\* uploadToIpfs up to its fetch: the two size checks throw before any request.
uploadToIpfs(file) ==
    IF file.size > MAX_FILE_SIZE
    THEN [settled |-> TRUE, rejected |-> TRUE, message |-> "File too large. Maximum size is 10 MB."]
    ELSE IF file.size = 0
    THEN [settled |-> TRUE, rejected |-> TRUE, message |-> "Cannot upload an empty file."]
    ELSE [settled |-> FALSE]

\* uploadToIpfs after its fetch has settled
uploadToIpfsSettled(outcome) ==
    IF outcome.rejected
    THEN [settled |-> TRUE, rejected |-> TRUE, message |-> outcome.message]
    ELSE IF ~outcome.ok
    THEN [settled |-> TRUE, rejected |-> TRUE,
          message |-> IF "error" \in DOMAIN outcome.json
                      THEN outcome.json.error
                      ELSE UploadFailedWithStatus(outcome.status)]
    ELSE [settled |-> TRUE, rejected |-> FALSE, result |-> outcome.json]

\* The state of a mounted page: the four useState cells handleUpload and
\* handleFileSelect write.
PageState(file, stg, result, message) ==
    [selectedFile |-> file, stage |-> stg, uploadResult |-> result, errorMessage |-> message]

InitialPage == PageState(null, "idle", null, "")

\* What a handler run (one batch of state updates) leaves: the page, the
\* setStage calls it made in order, the files it passed to uploadToIpfs, and
\* the calls it left pending.
Ran(pg, stages, called, pending) ==
    [page |-> pg, stages |-> stages, called |-> called, pending |-> pending]

handleFileSelect(pg, file) ==
    Ran(PageState(file, "idle", null, ""), << "idle" >>, << >>, << >>)

\* The rest of handleUpload once the awaited uploadToIpfs has settled (try
\* body after the await, or the catch).
handleUploadSettled(pg, file, settled) ==
    IF settled.rejected
    THEN Ran([pg EXCEPT !.errorMessage = settled.message, !.stage = "error"],
             << "error" >>, << >>, << >>)
    ELSE Ran([pg EXCEPT !.uploadResult = settled.result, !.stage = "done"],
             << "registering", "done" >>, << >>, << >>)

\* Faulty variant of handleUpload: the wallet address is not looked at.
handleUploadWithoutWalletCheck(pg, wallet) ==
    IF pg.selectedFile = null
    THEN Ran(pg, << >>, << >>, << >>)
    ELSE LET started == [pg EXCEPT !.stage = "uploading", !.errorMessage = ""]
             call    == uploadToIpfs(pg.selectedFile)
         IN  IF call.settled
             THEN LET rest == handleUploadSettled(started, pg.selectedFile, call)
                  IN  Ran(rest.page, << "uploading" >> \o rest.stages, << pg.selectedFile >>, << >>)
             ELSE Ran(started, << "uploading" >>, << pg.selectedFile >>, << pg.selectedFile >>)

\* handleUpload from its call to the await; when uploadToIpfs has thrown on a
\* size check the catch runs before any other event can be handled.
handleUpload(pg, wallet) ==
    IF pg.selectedFile = null
    THEN Ran(pg, << >>, << >>, << >>)
    ELSE IF wallet = ""
    THEN Ran([pg EXCEPT !.errorMessage = "Please connect your wallet first.", !.stage = "error"],
             << "error" >>, << >>, << >>)
    ELSE LET started == [pg EXCEPT !.stage = "uploading", !.errorMessage = ""]
             call    == uploadToIpfs(pg.selectedFile)
         IN  IF call.settled
             THEN LET rest == handleUploadSettled(started, pg.selectedFile, call)
                  IN  Ran(rest.page, << "uploading" >> \o rest.stages, << pg.selectedFile >>, << >>)
             ELSE Ran(started, << "uploading" >>, << pg.selectedFile >>, << pg.selectedFile >>)

\* The button's disabled attribute
uploadDisabled(pg) ==
    pg.selectedFile = null \/ pg.stage = "uploading" \/ pg.stage = "registering"

\* App.handleConnect
handleConnect == "bcrt1p...connected"

----------------------------------------------------------------------------
(* The backend: the HTTP handler of the IPFS upload API *)

\* Largest number of chunks a request body arrives in, and largest chunk.
MaxChunks == 3
MaxChunkLen == 2

\* The request bodies: every sequence of at most MaxChunks chunk lengths.
Bodies == UNION { [1..n -> 0..MaxChunkLen] : n \in 0..MaxChunks }

Requests == [method : {"OPTIONS", "GET", "POST"}, pathname : {"/health", "/upload", "/"}, chunks : Bodies]

\* What pinata.upload.file can settle with: a cid, an Error, a thrown non-Error.
PinataOutcomes ==
    { [rejected |-> FALSE, cid |-> "bafy"],
      [rejected |-> TRUE, isError |-> TRUE, message |-> "pinata: request failed"],
      [rejected |-> TRUE, isError |-> FALSE] }

RECURSIVE Sum(_)
Sum(lens) == IF lens = << >> THEN 0 ELSE Head(lens) + Sum(Tail(lens))

sendJson(statusCode, body) == [statusCode |-> statusCode, body |-> body]

\* handleCors: whether the request is a preflight, answered 204 without a body.
handleCors(req) == req.method = "OPTIONS"

\* Faulty variant of readBodyChunk: a body of exactly maxSize bytes is refused.
readBodyChunkInclusive(size, kept, buf, maxSize) ==
    LET total == size + buf
    IN  IF total >= maxSize
        THEN [threw |-> TRUE, totalSize |-> total, chunks |-> kept,
              message |-> "File exceeds maximum size of MAX_FILE_SIZE bytes"]
        ELSE [threw |-> FALSE, totalSize |-> total, chunks |-> Append(kept, buf)]

\* One turn of the loop of readBody: the chunk is counted, then refused or kept.
readBodyChunk(size, kept, buf, maxSize) ==
    LET total == size + buf
    IN  IF total > maxSize
        THEN [threw |-> TRUE, totalSize |-> total, chunks |-> kept,
              message |-> "File exceeds maximum size of MAX_FILE_SIZE bytes"]
        ELSE [threw |-> FALSE, totalSize |-> total, chunks |-> Append(kept, buf)]

\* handler and handleUpload up to the first await: the response sent at once,
\* or null when the body is to be read.
handler(jwt, req) ==
    IF handleCors(req) THEN [statusCode |-> 204]
    ELSE IF req.pathname = "/health" /\ req.method = "GET"
    THEN sendJson(200, [status |-> "ok"])
    ELSE IF req.pathname = "/upload" /\ req.method = "POST"
    THEN IF jwt = ""
         THEN sendJson(500, [error |-> "PINATA_JWT not configured on server"])
         ELSE null
    ELSE sendJson(404, [error |-> "Not found"])

\* handleUpload once readBody has returned Buffer.concat(chunks): the empty
\* body is refused, any other is made a File and given to Pinata.
handleUploadBody(kept) ==
    IF Sum(kept) = 0
    THEN [response |-> sendJson(400, [error |-> "Empty file body"]), pinned |-> << >>]
    ELSE [response |-> null, pinned |-> << [size |-> Sum(kept)] >>]

\* handleUpload once pinata.upload.file has settled
handleUploadPinned(bodyLength, outcome) ==
    IF outcome.rejected
    THEN sendJson(502, [error |-> IF outcome.isError THEN outcome.message
                                  ELSE "Pinata upload failed"])
    ELSE sendJson(200, [cid |-> outcome.cid, fileSize |-> bodyLength])

----------------------------------------------------------------------------
(* The state machine: one action per contract method *)

contractVars == << paused, totalFiles, fileSizes, fileUploaders, fileBlocks, fileTimestamps,
                   fileExists, fileNameChunks, cidChunks, events, registered, last >>
pageVars == << selectedFile, stage, uploadResult, errorMessage, walletAddress, uploads, ran >>
serverVars == << PINATA_JWT, request, position, delivered, totalSize, bodyChunks, response,
                 pinned, pinataSettled >>
vars == << contractVars, pageVars, serverVars >>

Storage ==
    [ paused         |-> paused,
      totalFiles     |-> totalFiles,
      fileSizes      |-> fileSizes,
      fileUploaders  |-> fileUploaders,
      fileBlocks     |-> fileBlocks,
      fileTimestamps |-> fileTimestamps,
      fileExists     |-> fileExists,
      fileNameChunks |-> fileNameChunks,
      cidChunks      |-> cidChunks ]

\* One call: what it persists, the events it leaves in the log, and its outcome.
Commit(op, r) ==
    LET p == Persisted(Storage, r)
    IN  /\ paused' = p.paused
        /\ totalFiles' = p.totalFiles
        /\ fileSizes' = p.fileSizes
        /\ fileUploaders' = p.fileUploaders
        /\ fileBlocks' = p.fileBlocks
        /\ fileTimestamps' = p.fileTimestamps
        /\ fileExists' = p.fileExists
        /\ fileNameChunks' = p.fileNameChunks
        /\ cidChunks' = p.cidChunks
        /\ events' = IF r.revert = "" THEN events \o r.events ELSE events
        /\ last' = [op |-> op, revert |-> r.revert]
        /\ UNCHANGED << pageVars, serverVars >>

\* The page as mounted: no file, stage idle, no wallet connected, nothing awaited.
InitPage ==
    /\ selectedFile = InitialPage.selectedFile
    /\ stage = InitialPage.stage
    /\ uploadResult = InitialPage.uploadResult
    /\ errorMessage = InitialPage.errorMessage
    /\ walletAddress = ""
    /\ uploads = << >>
    /\ ran = [op |-> "mount", stages |-> << >>, called |-> << >>, file |-> null]

\* The backend as started with the given PINATA_JWT, before any request.
InitServer(jwt) ==
    /\ PINATA_JWT = jwt
    /\ request = null
    /\ position = "idle"
    /\ delivered = 0
    /\ totalSize = 0
    /\ bodyChunks = << >>
    /\ response = null
    /\ pinned = << >>
    /\ pinataSettled = null

\* Construction and onDeployment: paused defaults to false, totalFiles is zero.
InitContract ==
    /\ paused = EmptyStorage.paused
    /\ totalFiles = EmptyStorage.totalFiles
    /\ fileSizes = EmptyStorage.fileSizes
    /\ fileUploaders = EmptyStorage.fileUploaders
    /\ fileBlocks = EmptyStorage.fileBlocks
    /\ fileTimestamps = EmptyStorage.fileTimestamps
    /\ fileExists = EmptyStorage.fileExists
    /\ fileNameChunks = EmptyStorage.fileNameChunks
    /\ cidChunks = EmptyStorage.cidChunks
    /\ events = << >>
    /\ registered = << >>
    /\ last = [op |-> "onDeployment", revert |-> ""]

\* The contract deployed, the page mounted, the backend run without a JWT.
Init ==
    /\ InitContract
    /\ InitPage
    /\ InitServer("")

RegisterFile ==
    \E cid \in CIDs, fileName \in FileNames, fileSize \in FileSizes, tx \in Txs :
        LET r == registerFile(Storage, cid, fileName, fileSize, tx)
        IN  /\ Commit("registerFile", r)
            /\ registered' =
                 IF r.revert = ""
                 THEN Append(registered,
                             [ cid |-> cid, cidKey |-> cidToKey(cid),
                               fileName |-> fileName, fileSize |-> fileSize,
                               uploader |-> tx.sender, blockNumber |-> tx.number,
                               timestamp |-> tx.medianTimestamp ])
                 ELSE registered

GetFile ==
    \E cid \in CIDs :
        /\ Commit("getFile", getFile(Storage, cid))
        /\ UNCHANGED registered

CheckFileExists ==
    \E cid \in CIDs :
        /\ Commit("checkFileExists", checkFileExists(Storage, cid))
        /\ UNCHANGED registered

GetTotalFiles ==
    /\ Commit("getTotalFiles", getTotalFiles(Storage))
    /\ UNCHANGED registered

GetFileByIndex ==
    \E index \in 0..(totalFiles + 1) :
        /\ Commit("getFileByIndex", getFileByIndex(Storage, index))
        /\ UNCHANGED registered

Pause ==
    \E tx \in Txs :
        /\ Commit("pause", pause(Storage, tx.sender))
        /\ UNCHANGED registered

Unpause ==
    \E tx \in Txs :
        /\ Commit("unpause", unpause(Storage, tx.sender))
        /\ UNCHANGED registered

GetIsPaused ==
    /\ Commit("getIsPaused", getIsPaused(Storage))
    /\ UNCHANGED registered

Next ==
    \/ RegisterFile
    \/ GetFile
    \/ CheckFileExists
    \/ GetTotalFiles
    \/ GetFileByIndex
    \/ Pause
    \/ Unpause
    \/ GetIsPaused

Spec == Init /\ [][Next]_vars

----------------------------------------------------------------------------
(* The upload page as a state machine: one step per event handled *)

Page == PageState(selectedFile, stage, uploadResult, errorMessage)

\* One batch of state updates of a handler run, rendered before the next event.
Render(op, file, r) ==
    /\ selectedFile' = r.page.selectedFile
    /\ stage' = r.page.stage
    /\ uploadResult' = r.page.uploadResult
    /\ errorMessage' = r.page.errorMessage
    /\ ran' = [op |-> op, stages |-> r.stages, called |-> r.called, file |-> file]

\* A file is picked in the dialog or dropped on the zone.
HandleFileSelect ==
    \E file \in Files :
        /\ Render("handleFileSelect", file, handleFileSelect(Page, file))
        /\ UNCHANGED << walletAddress, uploads, contractVars, serverVars >>

\* The button is clicked; it takes no click while disabled.
HandleUpload ==
    LET r == handleUpload(Page, walletAddress)
    IN  /\ ~uploadDisabled(Page)
        /\ Len(uploads) + Len(r.pending) <= MaxInFlight
        /\ Render("handleUpload", selectedFile, r)
        /\ uploads' = uploads \o r.pending
        /\ UNCHANGED << walletAddress, contractVars, serverVars >>

\* The fetch of an awaited uploadToIpfs settles and handleUpload resumes.
UploadSettles ==
    \E i \in 1..Len(uploads) :
        \E outcome \in FetchOutcomes(uploads[i]) :
            /\ Render("settled", uploads[i],
                      handleUploadSettled(Page, uploads[i], uploadToIpfsSettled(outcome)))
            /\ uploads' = SubSeq(uploads, 1, i - 1) \o SubSeq(uploads, i + 1, Len(uploads))
            /\ UNCHANGED << walletAddress, contractVars, serverVars >>

\* Connect Wallet is clicked in the header of the App.
HandleConnect ==
    /\ walletAddress' = handleConnect
    /\ ran' = [op |-> "handleConnect", stages |-> << >>, called |-> << >>, file |-> null]
    /\ UNCHANGED << selectedFile, stage, uploadResult, errorMessage, uploads,
                    contractVars, serverVars >>

NextUpload ==
    \/ HandleFileSelect
    \/ HandleUpload
    \/ UploadSettles
    \/ HandleConnect

SpecUpload == Init /\ [][NextUpload]_vars

----------------------------------------------------------------------------
(* The backend as a state machine: one step per turn of a request's handler *)

\* Started with or without a JWT in the environment.
InitBackend ==
    /\ InitContract
    /\ InitPage
    /\ \E jwt \in {"", "jwt"} : InitServer(jwt)

\* A request arrives and handler runs to its first await.
Arrive ==
    \E req \in Requests :
        LET res == handler(PINATA_JWT, req)
        IN  /\ position \in {"idle", "answered"}
            /\ request' = req
            /\ response' = res
            /\ position' = IF res = null THEN "reading" ELSE "answered"
            /\ delivered' = 0
            /\ totalSize' = 0
            /\ bodyChunks' = << >>
            /\ pinned' = << >>
            /\ pinataSettled' = null
            /\ UNCHANGED << PINATA_JWT, contractVars, pageVars >>

\* The request stream yields its next chunk to the loop of readBody.
ReadChunk ==
    /\ position = "reading"
    /\ delivered < Len(request.chunks)
    /\ LET r == readBodyChunk(totalSize, bodyChunks, request.chunks[delivered + 1], MAX_FILE_SIZE)
       IN  /\ delivered' = delivered + 1
           /\ totalSize' = r.totalSize
           /\ bodyChunks' = r.chunks
           /\ response' = IF r.threw THEN sendJson(413, [error |-> r.message]) ELSE response
           /\ position' = IF r.threw THEN "answered" ELSE position
    /\ UNCHANGED << PINATA_JWT, request, pinned, pinataSettled, contractVars, pageVars >>

\* The request stream ends: readBody returns and handleUpload goes on.
EndOfBody ==
    /\ position = "reading"
    /\ delivered = Len(request.chunks)
    /\ LET r == handleUploadBody(bodyChunks)
       IN  /\ response' = r.response
           /\ pinned' = r.pinned
           /\ position' = IF r.response = null THEN "pinning" ELSE "answered"
    /\ UNCHANGED << PINATA_JWT, request, delivered, totalSize, bodyChunks, pinataSettled,
                    contractVars, pageVars >>

\* pinata.upload.file settles.
PinataSettles ==
    \E outcome \in PinataOutcomes :
        /\ position = "pinning"
        /\ response' = handleUploadPinned(Sum(bodyChunks), outcome)
        /\ pinataSettled' = outcome
        /\ position' = "answered"
        /\ UNCHANGED << PINATA_JWT, request, delivered, totalSize, bodyChunks, pinned,
                        contractVars, pageVars >>

NextBackend ==
    \/ Arrive
    \/ ReadChunk
    \/ EndOfBody
    \/ PinataSettles

SpecBackend == InitBackend /\ [][NextBackend]_vars

----------------------------------------------------------------------------
(* Vocabulary of the properties *)

\* Ordinals (1-based positions in the history) of the successful registrations.
Ordinals == 1..Len(registered)

RegisteredCids == { registered[i].cid : i \in Ordinals }

RegisteredKeys == { cidToKey(registered[i].cid) : i \in Ordinals }

\* What getFile returns for the record of the i-th successful registration.
RecordOf(i) ==
    << registered[i].fileName, registered[i].fileSize, registered[i].uploader,
       registered[i].blockNumber, registered[i].timestamp, TRUE >>

\* What getFile returns on a miss.
MissRecord == << << >>, 0, 0, 0, 0, FALSE >>

\* The Revert message the checks of register give for a duplicate identifier.
DuplicateRevert(fileName, fileSize) ==
    IF paused THEN "Contract paused"
    ELSE IF fileName = << >> THEN "File name cannot be empty"
    ELSE IF fileSize = 0 THEN "File size cannot be zero"
    ELSE "File already registered"

----------------------------------------------------------------------------
(* Properties *)

\* C1 (as stated): once register(id, ...) has succeeded, every later register of
\* the same id, whatever its other arguments, fails with AlreadyRegistered.
C1_DuplicateAlwaysAlreadyRegistered ==
    \A i \in Ordinals, fileName \in FileNames, fileSize \in FileSizes, tx \in Txs :
        registerFile(Storage, registered[i].cid, fileName, fileSize, tx).revert
            = "File already registered"

\* C1 (amended): once register(id, ...) has succeeded, every later register of the
\* same id fails and persists nothing: with Paused while the registry is paused,
\* else with InvalidInput for an empty name or a zero size, else with
\* AlreadyRegistered.
C1_DuplicateNeverSucceeds ==
    \A i \in Ordinals, fileName \in FileNames, fileSize \in FileSizes, tx \in Txs :
        LET r == registerFile(Storage, registered[i].cid, fileName, fileSize, tx)
        IN  /\ r.revert = DuplicateRevert(fileName, fileSize)
            /\ Persisted(Storage, r) = Storage

\* C1 witness: a duplicate registration has just been refused.
C1_Witness ==
    /\ registered # << >>
    /\ last = [op |-> "registerFile", revert |-> "File already registered"]

\* C2: records are write-once: getFile of every identifier that was registered
\* returns exactly the name, size, uploader, height and time of its registration,
\* with exists = true, in every later state.
C2_WriteOnce ==
    \A i \in Ordinals :
        getFile(Storage, registered[i].cid) = Returned(Storage, << >>, RecordOf(i))

\* C2 witness: a first record, a later registration, then a refused duplicate.
C2_Witness ==
    /\ Len(registered) >= 2
    /\ last = [op |-> "registerFile", revert |-> "File already registered"]

\* C3: getFileByIndex(i) returns the identifier of the i-th successful
\* registration, in every later state, for identifiers of any length.
C3_OrdinalStability ==
    \A i \in Ordinals :
        LET r == getFileByIndex(Storage, i - 1)
        IN  r.revert = "" /\ r.ret[1] = registered[i].cid

\* C4: getTotalFiles is 0 before any registration and equals the number of
\* successful registrations in every state: one more after each success,
\* unchanged by every failed registration and every other operation.
C4_MonotoneCount ==
    /\ totalFiles = Len(registered)
    /\ getTotalFiles(Storage) = Returned(Storage, << >>, << Len(registered) >>)

\* C4 witness: three registrations succeeded and a further register failed.
C4_Witness ==
    /\ Len(registered) = 3
    /\ last.op = "registerFile"
    /\ last.revert # ""

\* A call that gave back r and failed wrote nothing before its throw, emitted no
\* event, and persists nothing.
SideEffectFree(r) ==
    r.revert # "" =>
        /\ r.st = Storage
        /\ r.events = << >>
        /\ Persisted(Storage, r) = Storage

\* C5: every failing call (register refused as Paused, InvalidInput or
\* AlreadyRegistered, getFileByIndex out of range, pause or unpause by a caller
\* other than the deployer) leaves paused, the count, every map cell and the
\* event log exactly as before the call.
C5_FailuresAreSideEffectFree ==
    /\ \A cid \in CIDs, fileName \in FileNames, fileSize \in FileSizes, tx \in Txs :
          SideEffectFree(registerFile(Storage, cid, fileName, fileSize, tx))
    /\ \A index \in 0..(totalFiles + 1) :
          SideEffectFree(getFileByIndex(Storage, index))
    /\ \A tx \in Txs :
          /\ SideEffectFree(pause(Storage, tx.sender))
          /\ SideEffectFree(unpause(Storage, tx.sender))
    /\ last.revert # "" =>
          last.revert \in { "Contract paused", "CID cannot be empty",
                            "File name cannot be empty", "File size cannot be zero",
                            "File already registered", "Index out of bounds",
                            "Only deployer can call this method" }

\* C5 witness: with a record stored, a register was refused by the gate.
C5_Witness ==
    /\ registered # << >>
    /\ last = [op |-> "registerFile", revert |-> "Contract paused"]

\* A register call that gave back r was refused by the gate and registers nothing.
RefusedAsPaused(r) ==
    /\ r.revert = "Contract paused"
    /\ r.st = Storage
    /\ r.events = << >>
    /\ Persisted(Storage, r) = Storage

\* C6: pause gating: a successful pause leaves the registry paused, it stays
\* paused until a successful unpause, and while it is paused every register call,
\* whatever its arguments, fails with Paused and registers nothing.
C6_PauseGating ==
    /\ [](last = [op |-> "pause", revert |-> ""] => paused)
    /\ [](paused =>
            \A cid \in CIDs, fileName \in FileNames, fileSize \in FileSizes, tx \in Txs :
                RefusedAsPaused(registerFile(Storage, cid, fileName, fileSize, tx)))
    /\ [][(paused /\ ~paused') => last' = [op |-> "unpause", revert |-> ""]]_vars

\* C6 witness: with a record stored and the registry paused, a register was refused.
C6_Witness ==
    /\ paused
    /\ registered # << >>
    /\ last = [op |-> "registerFile", revert |-> "Contract paused"]

\* The storage with the gate in the other position.
GateFlipped == [Storage EXCEPT !.paused = ~paused]

\* Two calls gave back the same outcome and the same values.
SameAnswer(r1, r2) == r1.revert = r2.revert /\ r1.ret = r2.ret

\* C7: reads are never gated: getFile, checkFileExists, getTotalFiles and
\* getFileByIndex give the same answer with the gate closed as with it open,
\* getIsPaused returns the flag, and none of them fails with Paused.
C7_ReadsNotGated ==
    /\ \A cid \in CIDs :
          /\ SameAnswer(getFile(Storage, cid), getFile(GateFlipped, cid))
          /\ getFile(Storage, cid).revert = ""
          /\ SameAnswer(checkFileExists(Storage, cid), checkFileExists(GateFlipped, cid))
          /\ checkFileExists(Storage, cid).revert = ""
    /\ SameAnswer(getTotalFiles(Storage), getTotalFiles(GateFlipped))
    /\ getTotalFiles(Storage).revert = ""
    /\ \A index \in 0..(totalFiles + 1) :
          /\ SameAnswer(getFileByIndex(Storage, index), getFileByIndex(GateFlipped, index))
          /\ index < totalFiles => getFileByIndex(Storage, index).revert = ""
    /\ getIsPaused(Storage) = Returned(Storage, << >>, << paused >>)
    /\ last.op \in { "getFile", "checkFileExists", "getTotalFiles", "getIsPaused" }
          => last.revert = ""
    /\ last.op = "getFileByIndex" => last.revert \in { "", "Index out of bounds" }

\* C7 witness: a record was read by ordinal while the registry was paused.
C7_Witness ==
    /\ paused
    /\ last = [op |-> "getFileByIndex", revert |-> ""]

\* C8: read-after-write: right after a successful register, checkFileExists of the
\* identifier is true, getFile returns its name, size, uploader, height and time
\* with exists = true, and getFileByIndex(count - 1) returns the same record
\* together with the identifier.
C8_ReadAfterWrite ==
    last = [op |-> "registerFile", revert |-> ""] =>
        LET n   == Len(registered)
            rec == registered[n]
        IN  /\ n >= 1
            /\ checkFileExists(Storage, rec.cid) = Returned(Storage, << >>, << TRUE >>)
            /\ getFile(Storage, rec.cid) = Returned(Storage, << >>, RecordOf(n))
            /\ getFileByIndex(Storage, totalFiles - 1) =
                  Returned(Storage, << >>,
                           << rec.cid, rec.fileName, rec.fileSize, rec.uploader,
                              rec.blockNumber, rec.timestamp >>)

\* C8 witness: the long identifier has just been registered after another record.
C8_Witness ==
    /\ last = [op |-> "registerFile", revert |-> ""]
    /\ Len(registered) >= 2
    /\ registered[Len(registered)].cid = CidLong

\* A call gave back the miss sentinel / the answer "not registered".
IsMiss(cid) ==
    /\ getFile(Storage, cid) = Returned(Storage, << >>, MissRecord)
    /\ checkFileExists(Storage, cid) = Returned(Storage, << >>, << FALSE >>)

\* C9 (as stated): getFile of an identifier that was never successfully registered
\* returns exists = false with empty name and zero fields and raises no error, and
\* checkFileExists of it returns false.
C9_MissForUnregisteredIdentifier ==
    \A cid \in CIDs : cid \notin RegisteredCids => IsMiss(cid)

\* C9 (amended): the same for every identifier whose content key is the key of no
\* successfully registered identifier; and getFile raises no error for any
\* identifier.
C9_MissForUnregisteredKey ==
    \A cid \in CIDs :
        /\ cidToKey(cid) \notin RegisteredKeys => IsMiss(cid)
        /\ getFile(Storage, cid).revert = ""

\* C9 witness: with records stored, an identifier with an unregistered key exists
\* and a getFile has just returned.
C9_Witness ==
    /\ registered # << >>
    /\ \E cid \in CIDs : cid # << >> /\ cidToKey(cid) \notin RegisteredKeys
    /\ last = [op |-> "getFile", revert |-> ""]

\* C10: getFileByIndex(i) fails with OutOfRange exactly when i >= count and
\* returns for every i < count.
C10_OutOfRange ==
    \A index \in 0..(Len(registered) + 1) :
        LET r == getFileByIndex(Storage, index)
        IN  /\ index >= Len(registered) <=> r.revert = "Index out of bounds"
            /\ index < Len(registered) => r.revert = ""

\* C10 witness: with a record stored, a read by ordinal was out of range.
C10_Witness ==
    /\ registered # << >>
    /\ last = [op |-> "getFileByIndex", revert |-> "Index out of bounds"]

\* C11: pause and unpause called by an identity other than the deployer fail with
\* Unauthorized and leave the paused flag (and everything else) unchanged; called
\* by the deployer they return and leave paused true / false respectively.
C11_PauseAuthorization ==
    /\ \A tx \in Txs :
          LET p == pause(Storage, tx.sender)
              u == unpause(Storage, tx.sender)
          IN  IF tx.sender = contractDeployer
              THEN /\ p.revert = ""
                   /\ Persisted(Storage, p) = [Storage EXCEPT !.paused = TRUE]
                   /\ u.revert = ""
                   /\ Persisted(Storage, u) = [Storage EXCEPT !.paused = FALSE]
              ELSE /\ p.revert = "Only deployer can call this method"
                   /\ Persisted(Storage, p) = Storage
                   /\ u.revert = "Only deployer can call this method"
                   /\ Persisted(Storage, u) = Storage
    /\ last = [op |-> "pause", revert |-> ""] => paused
    /\ last = [op |-> "unpause", revert |-> ""] => ~paused

\* C11 witness: while the registry is paused, an unpause by another identity has
\* just been refused.
C11_Witness ==
    /\ paused
    /\ last = [op |-> "unpause", revert |-> "Only deployer can call this method"]

\* No event is emitted by the call that gave back r.
EmitsNothing(r) == r.events = << >>

\* C12: a FileRegistered event carrying (size, uploader) of the new record is
\* emitted exactly once by each registration that succeeds and never by a failed
\* registration or by another operation; so the number of events emitted equals
\* the count, and the i-th event carries the size and uploader of the i-th record.
C12_OneEventPerRegistration ==
    /\ \A cid \in CIDs, fileName \in FileNames, fileSize \in FileSizes, tx \in Txs :
          LET r == registerFile(Storage, cid, fileName, fileSize, tx)
          IN  IF r.revert = ""
              THEN r.events = << [fileSize |-> fileSize, uploader |-> tx.sender] >>
              ELSE EmitsNothing(r)
    /\ \A cid \in CIDs :
          EmitsNothing(getFile(Storage, cid)) /\ EmitsNothing(checkFileExists(Storage, cid))
    /\ \A index \in 0..(totalFiles + 1) : EmitsNothing(getFileByIndex(Storage, index))
    /\ \A tx \in Txs :
          EmitsNothing(pause(Storage, tx.sender)) /\ EmitsNothing(unpause(Storage, tx.sender))
    /\ EmitsNothing(getTotalFiles(Storage)) /\ EmitsNothing(getIsPaused(Storage))
    /\ Len(events) = totalFiles
    /\ Len(events) = Len(registered)
    /\ \A i \in Ordinals :
          LET rec == getFile(Storage, registered[i].cid).ret
          IN  /\ events[i] = [fileSize |-> registered[i].fileSize,
                              uploader |-> registered[i].uploader]
              /\ events[i] = [fileSize |-> rec[2], uploader |-> rec[3]]

\* C12 witness: two registrations by different uploaders emitted their events and
\* a further registration failed.
C12_Witness ==
    /\ Len(events) >= 2
    /\ events[1].uploader # events[2].uploader
    /\ last.op = "registerFile"
    /\ last.revert # ""

\* storeString of s at base into map, then readString at base, gives s back; the
\* store throws exactly when a chunk cell of s would lie beyond the largest key.
RoundTrip(map, base, s) ==
    LET stored == storeString(map, base, s)
        loaded == readString(stored.map, base)
    IN  /\ stored.revert <=> base + chunkCount(Len(s)) >= U256Mod
        /\ ~stored.revert => loaded = [revert |-> FALSE, value |-> s]

\* C13: chunked-string round trip: readString(map, base) after storeString(map,
\* base, s), nothing else touching the map in between, returns s: for the empty
\* string, lengths below one chunk, whole chunks, whole chunks plus one byte, and
\* whatever the map held before.
C13_RoundTrip ==
    \A map \in { << >>, fileNameChunks, cidChunks }, base \in BaseKeys, s \in ChunkStrings :
        RoundTrip(map, base, s)

\* C13 witness: a registration stored an identifier of whole chunks and a name of
\* whole chunks plus one byte, and both read back.
C13_Witness ==
    \E i \in Ordinals :
        /\ Len(registered[i].cid) % SlotBytes = 0
        /\ Len(registered[i].fileName) % SlotBytes = 1
        /\ readString(cidChunks, cidBase(i - 1)).value = registered[i].cid
        /\ readString(fileNameChunks, cidToKey(registered[i].cid)).value
              = registered[i].fileName

\* The identifier that ordinal index resolves to (getFileByIndex, first value).
CidAt(index) == getFileByIndex(Storage, index).ret[1]

\* C14 (as stated, its clauses on ordinals): in every reachable state every ordinal
\* below the count resolves to an identifier whose record exists, and distinct
\* ordinals resolve to distinct identifiers.
C14_GapFreeEnumeration ==
    /\ \A index \in 0..(totalFiles - 1) :
          /\ getFileByIndex(Storage, index).revert = ""
          /\ checkFileExists(Storage, CidAt(index)).ret = << TRUE >>
    /\ \A i, j \in 0..(totalFiles - 1) : i # j => CidAt(i) # CidAt(j)

\* The Revert messages that stand for InvalidInput.
InvalidInput ==
    { "CID cannot be empty", "File name cannot be empty", "File size cannot be zero" }

\* C15: with the gate open, register with an empty identifier, an empty name or
\* size 0 fails with InvalidInput and persists nothing; so every record that
\* exists has a non-empty identifier, a non-empty name and a size above 0.
C15_InvalidInput ==
    /\ ~paused =>
          \A cid \in CIDs, fileName \in FileNames, fileSize \in FileSizes, tx \in Txs :
              (cid = << >> \/ fileName = << >> \/ fileSize = 0) =>
                  LET r == registerFile(Storage, cid, fileName, fileSize, tx)
                  IN  r.revert \in InvalidInput /\ Persisted(Storage, r) = Storage
    /\ \A k \in DOMAIN fileExists :
          fileExists[k] = 1 =>
              /\ mapGet(fileSizes, k) > 0
              /\ readString(fileNameChunks, k).value # << >>
    /\ \A index \in 0..(totalFiles - 1) : CidAt(index) # << >>
    /\ \A i \in Ordinals :
          LET rec == getFile(Storage, registered[i].cid).ret
          IN  /\ registered[i].cid # << >>
              /\ rec[1] # << >>
              /\ rec[2] > 0

\* C15 witness: with a record stored and the gate open, a register with size 0
\* has just been refused.
C15_Witness ==
    /\ ~paused
    /\ registered # << >>
    /\ last = [op |-> "registerFile", revert |-> "File size cannot be zero"]

\* The keys some cell or some ordinal speaks of.
KnownKeys ==
    DOMAIN fileExists \cup DOMAIN fileSizes \cup DOMAIN fileUploaders
        \cup DOMAIN fileBlocks \cup DOMAIN fileTimestamps
        \cup { cidToKey(cid) : cid \in CIDs }
        \cup { cidToKey(CidAt(index)) : index \in 0..(totalFiles - 1) }

\* The size, uploader, height, time and name (length) cells of key k are written.
AllWritten(k) ==
    /\ k \in DOMAIN fileSizes
    /\ k \in DOMAIN fileUploaders
    /\ k \in DOMAIN fileBlocks
    /\ k \in DOMAIN fileTimestamps
    /\ k \in DOMAIN fileNameChunks

\* Some cell of the record of key k is written.
AnyWritten(k) ==
    \/ k \in DOMAIN fileSizes
    \/ k \in DOMAIN fileUploaders
    \/ k \in DOMAIN fileBlocks
    \/ k \in DOMAIN fileTimestamps
    \/ k \in DOMAIN fileNameChunks

\* An identifier with key k is stored at some ordinal below the count.
AtSomeOrdinal(k) == \E index \in 0..(totalFiles - 1) : cidToKey(CidAt(index)) = k

\* C16 (as stated): at every operation boundary a key has exists = true if and
\* only if its size, uploader, height, time and name cells are written and its
\* identifier is stored at an ordinal below the count; no key has a written cell
\* or an ordinal entry with exists = false.
C16_AllOrNothing ==
    \A k \in KnownKeys :
        /\ mapGet(fileExists, k) = 1 <=> (AllWritten(k) /\ AtSomeOrdinal(k))
        /\ (AnyWritten(k) \/ AtSomeOrdinal(k)) => mapGet(fileExists, k) = 1

\* exists(k): the record under content key k is marked as existing.
Exists(k) == mapGet(fileExists, k) = 1

\* C17: per content key the only transition is Absent -> Registered: the key of
\* every identifier registered so far exists, and no step of any operation takes
\* a key that exists back to Absent.
C17_OneWay ==
    /\ [](\A i \in Ordinals : Exists(cidToKey(registered[i].cid)))
    /\ [][\A k \in DOMAIN fileExists :
             fileExists[k] = 1 => (k \in DOMAIN fileExists' /\ fileExists'[k] = 1)]_vars

\* C17 witness: two keys exist and the registry has since been paused and reopened.
C17_Witness ==
    /\ Cardinality({ k \in DOMAIN fileExists : fileExists[k] = 1 }) >= 2
    /\ last = [op |-> "unpause", revert |-> ""]

\* C18: the two read paths agree: for every ordinal below the count,
\* getFileByIndex returns an identifier c together with exactly the name, size,
\* uploader, height and time that getFile(c) returns in the same state.
C18_ReadPathsAgree ==
    \A index \in 0..(totalFiles - 1) :
        LET byOrdinal    == getFileByIndex(Storage, index)
            byIdentifier == getFile(Storage, byOrdinal.ret[1])
        IN  /\ byOrdinal.revert = ""
            /\ byIdentifier.revert = ""
            /\ << byOrdinal.ret[2], byOrdinal.ret[3], byOrdinal.ret[4],
                  byOrdinal.ret[5], byOrdinal.ret[6] >>
                 = << byIdentifier.ret[1], byIdentifier.ret[2], byIdentifier.ret[3],
                      byIdentifier.ret[4], byIdentifier.ret[5] >>

\* C18 witness: two records by different uploaders are stored and one has just
\* been read by ordinal.
C18_Witness ==
    /\ Len(registered) >= 2
    /\ registered[1].uploader # registered[2].uploader
    /\ last = [op |-> "getFileByIndex", revert |-> ""]

\* The register calls with valid inputs: non-empty identifier and name, size > 0.
ValidCalls ==
    { c \in [cid : CIDs, fileName : FileNames, fileSize : FileSizes, tx : Txs] :
        c.cid # << >> /\ c.fileName # << >> /\ c.fileSize > 0 }

\* C19 (as stated): with the gate open and valid inputs, register of an identifier
\* never successfully registered succeeds whatever else is registered, and
\* AlreadyRegistered is returned only for a duplicate identifier.
C19_IdentifierIsSoleKey ==
    ~paused =>
        \A c \in ValidCalls :
            LET r == registerFile(Storage, c.cid, c.fileName, c.fileSize, c.tx)
            IN  /\ c.cid \notin RegisteredCids => r.revert = ""
                /\ r.revert = "File already registered" => c.cid \in RegisteredCids

\* C19 (amended): with the gate open and valid inputs, register of an identifier
\* whose content key is the key of no registered identifier succeeds, whatever
\* else (also with the same name and size) is registered; AlreadyRegistered is
\* returned exactly when the key is that of a registered identifier.
C19_ContentKeyIsSoleKey ==
    ~paused =>
        \A c \in ValidCalls :
            LET r == registerFile(Storage, c.cid, c.fileName, c.fileSize, c.tx)
            IN  /\ cidToKey(c.cid) \notin RegisteredKeys =>
                      /\ r.revert = ""
                      /\ Persisted(Storage, r).totalFiles = totalFiles + 1
                /\ r.revert = "File already registered"
                      <=> cidToKey(c.cid) \in RegisteredKeys

\* C19 witness: a third record with the name and size of the first two has just
\* been registered.
C19_Witness ==
    /\ Len(registered) = 3
    /\ \A i \in Ordinals :
          /\ registered[i].fileName = registered[1].fileName
          /\ registered[i].fileSize = registered[1].fileSize
    /\ last = [op |-> "registerFile", revert |-> ""]

\* The cells a stored string of len bytes occupies from base on: the length cell
\* and its chunk cells.
SlotRange(base, len) == { base + n : n \in 0..chunkCount(len) }

\* The cells of the name and of the identifier of the i-th registration.
NameRange(i) == SlotRange(cidToKey(registered[i].cid), Len(registered[i].fileName))
CidRange(i) == SlotRange(cidBase(i - 1), Len(registered[i].cid))

\* Key-spacing in the name-chunk map (bases are content keys).
NamesDoNotOverlap ==
    \A i, j \in Ordinals : i # j => NameRange(i) \cap NameRange(j) = {}

\* C20 (as stated): in every reachable state the cells (base and chunk cells) of
\* one stored string never overlap the cells of another stored string of the same
\* map: neither two names in fileNameChunks nor two identifiers in cidChunks.
C20_KeySpacing ==
    /\ NamesDoNotOverlap
    /\ \A i, j \in Ordinals : i # j => CidRange(i) \cap CidRange(j) = {}

\* The call that gave back r leaves the paused flag as it was.
KeepsPaused(r) == Persisted(Storage, r).paused = paused

\* C21: paused is false after deployment and changes only through a pause or
\* unpause by the deployer that returns: every register (returning or failing),
\* every read and every Unauthorized pause / unpause leaves it unchanged.
C21_PausedFrame ==
    /\ last.op = "onDeployment" => ~paused
    /\ \A cid \in CIDs, fileName \in FileNames, fileSize \in FileSizes, tx \in Txs :
          KeepsPaused(registerFile(Storage, cid, fileName, fileSize, tx))
    /\ \A cid \in CIDs :
          KeepsPaused(getFile(Storage, cid)) /\ KeepsPaused(checkFileExists(Storage, cid))
    /\ \A index \in 0..(totalFiles + 1) : KeepsPaused(getFileByIndex(Storage, index))
    /\ KeepsPaused(getTotalFiles(Storage))
    /\ KeepsPaused(getIsPaused(Storage))
    /\ \A tx \in Txs :
          tx.sender # contractDeployer =>
              /\ KeepsPaused(pause(Storage, tx.sender))
              /\ KeepsPaused(unpause(Storage, tx.sender))

\* C21 witness: with a record stored and the gate open, a pause by another
\* identity has just been refused.
C21_Witness ==
    /\ ~paused
    /\ registered # << >>
    /\ last = [op |-> "pause", revert |-> "Only deployer can call this method"]

\* The register call c applied to the storage st.
Register(st, c) == registerFile(st, c.cid, c.fileName, c.fileSize, c.tx)

\* The storage after an unpause by the deployer.
Reopened == Persisted(Storage, unpause(Storage, contractDeployer))

\* C22 (as stated): a register with valid inputs and a not-yet-registered
\* identifier fails with Paused while the registry is paused and succeeds when
\* retried with the same arguments after an unpause by the deployer.
C22_RetryOfUnregisteredIdentifier ==
    paused =>
        \A c \in ValidCalls :
            c.cid \notin RegisteredCids =>
                /\ Register(Storage, c).revert = "Contract paused"
                /\ Register(Reopened, c).revert = ""

\* C22 (amended): the same for an identifier whose content key is the key of no
\* registered identifier: the retry after the unpause succeeds and stores the
\* record of the call, also when a registration of an identifier with another
\* key comes in between.
C22_RetryOfUnregisteredKey ==
    paused =>
        \A c \in ValidCalls :
            cidToKey(c.cid) \notin RegisteredKeys =>
                LET retry == Register(Reopened, c)
                IN  /\ Register(Storage, c).revert = "Contract paused"
                    /\ retry.revert = ""
                    /\ getFile(Persisted(Reopened, retry), c.cid).ret
                         = << c.fileName, c.fileSize, c.tx.sender, c.tx.number,
                              c.tx.medianTimestamp, TRUE >>
                    /\ \A d \in ValidCalls :
                          cidToKey(d.cid) # cidToKey(c.cid) =>
                              Register(Persisted(Reopened, Register(Reopened, d)), c).revert = ""

\* C22 witness: with two records stored and an identifier with an unregistered
\* key left, a register has just been refused by the closed gate.
C22_Witness ==
    /\ paused
    /\ Len(registered) = 2
    /\ \E c \in ValidCalls : cidToKey(c.cid) \notin RegisteredKeys
    /\ last = [op |-> "registerFile", revert |-> "Contract paused"]

\* Counts at the edge of the width: the last whose ordinal base fits, the first
\* whose base does not, and the largest value of the count cell.
HighCounts == { (U256Mod \div Stride) - 1, U256Mod \div Stride, U256Mod - 1 }

\* The storage with the gate open and the count cell holding n.
AtCount(n) == [Storage EXCEPT !.totalFiles = n, !.paused = FALSE]

\* The Revert messages of SafeMath.
Overflow == { "SafeMath: multiplication overflow", "SafeMath: addition overflow" }

\* C23: counter arithmetic fails closed: when count + 1 or count * stride (or a
\* chunk cell above it) does not fit the width, register reverts and persists
\* nothing instead of wrapping; when they fit it stores the identifier at
\* count * stride; getFileByIndex reverts rather than read a wrapped base key.
C23_FailsClosed ==
    \A n \in HighCounts :
        /\ \A c \in ValidCalls :
              cidToKey(c.cid) \notin RegisteredKeys =>
                  LET st   == AtCount(n)
                      r    == Register(st, c)
                      fits == /\ n * Stride + chunkCount(Len(c.cid)) < U256Mod
                              /\ n + 1 < U256Mod
                  IN  IF fits
                      THEN /\ r.revert = ""
                           /\ Persisted(st, r).totalFiles = n + 1
                           /\ readString(Persisted(st, r).cidChunks, n * Stride).value = c.cid
                      ELSE /\ r.revert \in Overflow
                           /\ r.events = << >>
                           /\ Persisted(st, r) = st
        /\ \A index \in HighCounts :
              index < n =>
                  LET g == getFileByIndex(AtCount(n), index)
                  IN  IF index * Stride >= U256Mod
                      THEN g.revert = "SafeMath: multiplication overflow"
                      ELSE g.revert = ""

\* C23 witness: with a record stored, a valid register of a new key meets a count
\* whose ordinal base does not fit, and reverts on the multiplication.
C23_Witness ==
    /\ registered # << >>
    /\ \E c \in ValidCalls :
          /\ cidToKey(c.cid) \notin RegisteredKeys
          /\ Register(AtCount(U256Mod \div Stride), c).revert
                = "SafeMath: multiplication overflow"

ProbesAgree(cid) ==
    /\ checkFileExists(Storage, cid).revert = ""
    /\ getFile(Storage, cid).revert = ""
    /\ checkFileExists(Storage, cid).ret[1] = getFile(Storage, cid).ret[6]

\* C25 (as stated): in every reachable state and for every identifier,
\* checkFileExists equals the exists field of getFile, and it is true exactly for
\* the identifiers that were successfully registered.
C25_ExistsIffIdentifierRegistered ==
    \A cid \in CIDs :
        /\ ProbesAgree(cid)
        /\ checkFileExists(Storage, cid).ret[1] <=> cid \in RegisteredCids

\* C25 (amended): checkFileExists equals the exists field of getFile, and it is
\* true exactly for the identifiers whose content key is the key of a
\* successfully registered identifier.
C25_ExistsIffKeyRegistered ==
    \A cid \in CIDs :
        /\ ProbesAgree(cid)
        /\ checkFileExists(Storage, cid).ret[1] <=> cidToKey(cid) \in RegisteredKeys

\* C25 witness: one record is stored, the gate is open, and an existence probe has
\* just returned.
C25_Witness ==
    /\ ~paused
    /\ Len(registered) = 1
    /\ last = [op |-> "checkFileExists", revert |-> ""]

\* The chunk cells of an identifier of len bytes stored at ordinal index all lie
\* below the base cell of the next ordinal.
WithinRegion(index, len) ==
    \A n \in 1..chunkCount(len) : cidBase(index) + n < cidBase(index + 1)

\* The identifier of the i-th registration is still what its cells hold.
CidIntact(i) == readString(cidChunks, cidBase(i - 1)).value = registered[i].cid

Kept(before, after) ==
    \A k \in DOMAIN before : k \in DOMAIN after /\ after[k] = before[k]

\* C27 (as stated): no record cell is ever rewritten: whatever register call comes
\* next, every cell already written in the five per-key maps, in fileNameChunks
\* and in cidChunks holds the same value after it.
C27_NoSlotRewritten ==
    \A cid \in CIDs, fileName \in FileNames, fileSize \in FileSizes, tx \in Txs :
        LET after == Persisted(Storage, registerFile(Storage, cid, fileName, fileSize, tx))
        IN  /\ Kept(fileSizes, after.fileSizes)
            /\ Kept(fileUploaders, after.fileUploaders)
            /\ Kept(fileBlocks, after.fileBlocks)
            /\ Kept(fileTimestamps, after.fileTimestamps)
            /\ Kept(fileExists, after.fileExists)
            /\ Kept(fileNameChunks, after.fileNameChunks)
            /\ Kept(cidChunks, after.cidChunks)

\* C28: register reports the first failure condition that applies, in the order
\* Paused, empty identifier, empty name, zero size, AlreadyRegistered: a paused
\* registry reports Paused also for invalid or duplicate input, and a duplicate
\* identifier with an empty name or a zero size reports InvalidInput.
C28_CheckOrder ==
    \A cid \in CIDs, fileName \in FileNames, fileSize \in FileSizes, tx \in Txs :
        LET r == registerFile(Storage, cid, fileName, fileSize, tx)
        IN  IF paused THEN r.revert = "Contract paused"
            ELSE IF cid = << >> THEN r.revert = "CID cannot be empty"
            ELSE IF fileName = << >> THEN r.revert = "File name cannot be empty"
            ELSE IF fileSize = 0 THEN r.revert = "File size cannot be zero"
            ELSE cid \in RegisteredCids => r.revert = "File already registered"

\* C28 witness: with a record stored and the gate open, a register with an empty
\* name has just been refused as such.
C28_Witness ==
    /\ ~paused
    /\ registered # << >>
    /\ last = [op |-> "registerFile", revert |-> "File name cannot be empty"]

\* The register call first, applied to the current storage, returns; the call
\* second, applied after it, fails with AlreadyRegistered and changes nothing; the
\* count has grown by one and the record is that of first.
FirstWins(first, second) ==
    LET r1 == Register(Storage, first)
        s1 == Persisted(Storage, r1)
        r2 == Register(s1, second)
        s2 == Persisted(s1, r2)
    IN  /\ r1.revert = ""
        /\ r2.revert = "File already registered"
        /\ s2 = s1
        /\ s2.totalFiles = totalFiles + 1
        /\ getFile(s2, first.cid).ret
             = << first.fileName, first.fileSize, first.tx.sender, first.tx.number,
                  first.tx.medianTimestamp, TRUE >>

\* C29 (as stated): when two callers each submit a valid register for the same
\* not-yet-registered identifier (gate open), then in either order of application
\* exactly one call succeeds, the other fails with AlreadyRegistered, the record is
\* that of the call applied first and the count grows by exactly 1.
C29_SameIdentifierSerialized ==
    ~paused =>
        \A c1, c2 \in ValidCalls :
            (c1.cid = c2.cid /\ c1.cid \notin RegisteredCids) => FirstWins(c1, c2)

\* C29 (amended): the same for an identifier whose content key is the key of no
\* registered identifier.
C29_SameKeySerialized ==
    ~paused =>
        \A c1, c2 \in ValidCalls :
            (c1.cid = c2.cid /\ cidToKey(c1.cid) \notin RegisteredKeys) => FirstWins(c1, c2)

\* C29 witness: the second caller's register of the one stored identifier has
\* just been refused, and the record is the first caller's.
C29_Witness ==
    /\ Len(registered) = 1
    /\ totalFiles = 1
    /\ registered[1].uploader = 2
    /\ getFile(Storage, registered[1].cid).ret[3] = 2
    /\ last = [op |-> "registerFile", revert |-> "File already registered"]

\* The read that gave back r wrote nothing, persists nothing and logged nothing.
PureRead(r) ==
    /\ r.st = Storage
    /\ Persisted(Storage, r) = Storage
    /\ r.events = << >>

\* C30: every read (getFile, checkFileExists, getTotalFiles, getFileByIndex,
\* getIsPaused) leaves the whole persisted state and the event log unchanged,
\* whether it returns or fails.
C30_ReadsChangeNothing ==
    /\ \A cid \in CIDs :
          PureRead(getFile(Storage, cid)) /\ PureRead(checkFileExists(Storage, cid))
    /\ PureRead(getTotalFiles(Storage))
    /\ \A index \in 0..(totalFiles + 1) : PureRead(getFileByIndex(Storage, index))
    /\ PureRead(getIsPaused(Storage))

\* C30 witness: two records are stored, the gate is closed, and the count has
\* just been read.
C30_Witness ==
    /\ paused
    /\ Len(registered) = 2
    /\ Len(events) = 2
    /\ last = [op |-> "getTotalFiles", revert |-> ""]

\* C31: a pause or unpause that returns changes only the paused flag: the count,
\* every record cell, every chunk cell and the event log stay as they were; pause
\* of a paused registry and unpause of an open one return and change nothing.
C31_PauseChangesOnlyFlag ==
    LET p == pause(Storage, contractDeployer)
        u == unpause(Storage, contractDeployer)
    IN  /\ p.revert = "" /\ p.events = << >>
        /\ u.revert = "" /\ u.events = << >>
        /\ \A f \in DOMAIN Storage \ {"paused"} :
              /\ Persisted(Storage, p)[f] = Storage[f]
              /\ Persisted(Storage, u)[f] = Storage[f]
        /\ paused => Persisted(Storage, p) = Storage
        /\ ~paused => Persisted(Storage, u) = Storage
        /\ last.op \in {"pause", "unpause"} =>
              /\ totalFiles = Len(registered)
              /\ Len(events) = Len(registered)

\* C31 witness: with two records stored and their events logged, a pause has just
\* returned.
C31_Witness ==
    /\ paused
    /\ Len(registered) = 2
    /\ Len(events) = 2
    /\ last = [op |-> "pause", revert |-> ""]

\* Values to overwrite a cell with.
Junk == { 1, U256Mod - 1 }

\* On the map m, in which the string s is stored at base (its cells being there):
\*  - an empty s reads as empty whatever its first chunk cell holds;
\*  - the cell after the last chunk does not matter;
\*  - the bytes of the last chunk beyond the length do not matter;
\*  - the first byte of the last chunk does matter: the last chunk is read.
ReadsOnlyItsBytes(m, base, s) ==
    LET n       == chunkCount(Len(s))
        result  == readString(m, base)
        lastKey == base + n
        trailer == SlotBytes * n - Len(s)
    IN  /\ result = [revert |-> FALSE, value |-> s]
        /\ base + n + 1 < U256Mod =>
              \A t \in Junk : readString(mapSet(m, base + n + 1, t), base) = result
        /\ (n > 0 /\ trailer > 0) =>
              \A d \in { 1, ByteMod ^ trailer - 1 } :
                  readString(mapSet(m, lastKey, mapGet(m, lastKey) + d), base) = result
        /\ n > 0 =>
              readString(mapSet(m, lastKey,
                                (mapGet(m, lastKey) + ByteMod ^ (SlotBytes - 1)) % U256Mod),
                         base) # result

\* The same on an otherwise empty map, for every base key and string.
ReadsOnlyItsBytesOnEmptyMap ==
    /\ \A base \in BaseKeys, s \in ChunkStrings :
          LET stored == storeString(<< >>, base, s)
          IN  ~stored.revert => ReadsOnlyItsBytes(stored.map, base, s)
    /\ readString(mapSet(<< >>, U256Mod - 1, 0), U256Mod - 1)
          = [revert |-> FALSE, value |-> << >>]

\* C32: readString returns the empty string when the length cell is zero, without
\* reading a chunk cell (so also at the largest key, where a chunk key would
\* overflow); otherwise it reads exactly ceil(length / 32) chunk cells and its
\* result depends only on the first length bytes across them: not on the bytes of
\* the last chunk beyond the length, nor on the cell after the last chunk.
C32_ReadsOnlyRecordedLength ==
    /\ ReadsOnlyItsBytesOnEmptyMap
    /\ \A i \in Ordinals :
          ReadsOnlyItsBytes(fileNameChunks, cidToKey(registered[i].cid), registered[i].fileName)

\* C32 witness: three names with a partial last chunk are stored and one has just
\* been read.
C32_Witness ==
    /\ Len(registered) = 3
    /\ \A i \in Ordinals : Len(registered[i].fileName) % SlotBytes # 0
    /\ last = [op |-> "getFile", revert |-> ""]

----------------------------------------------------------------------------
(* Vocabulary of the upload page *)

\* The uploadToIpfs calls whose fetch has not settled
InFlight == Len(uploads)

\* The last handler run resumed an upload of a file that is no longer the
\* selected one.
SettledForReplacedFile == ran.op = "settled" /\ ran.file # selectedFile

\* The setStage calls of a handler run, as a set
StagesSet(r) == { r.stages[k] : k \in DOMAIN r.stages }

\* The files uploadToIpfs sends to the backend
Sendable == { f \in Files : ~uploadToIpfs(f).settled }

\* handleUpload run on the page as it is but with the given file selected
UploadOf(file, wallet) == handleUpload([Page EXCEPT !.selectedFile = file], wallet)

\* The resumption of handleUpload on the page as it is, for an upload of file
\* whose fetch settles with outcome
ResumeOf(file, outcome) == handleUploadSettled(Page, file, uploadToIpfsSettled(outcome))

----------------------------------------------------------------------------
\* C33: on the upload page at most one uploadToIpfs call is in flight at any
\* time: once an upload is started no second one starts, not even after another
\* file is selected or dropped, until the first has resolved or rejected.
C33_OneUploadInFlight ==
    InFlight <= 1

----------------------------------------------------------------------------
\* C34: whenever stage is 'done', uploadResult is non-null and is the result of
\* uploading the currently selected file; selecting a file resets stage to
\* 'idle' and uploadResult to null; and the completion of an earlier upload
\* never moves the page to 'registering' or 'done', nor sets uploadResult, for a
\* file that is no longer selected.
C34_DoneIsForSelectedFile ==
    /\ stage = "done" =>
          /\ uploadResult # null
          /\ selectedFile # null
          /\ uploadResult = IpfsUploadResult(selectedFile)
    /\ ran.op = "handleFileSelect" =>
          stage = "idle" /\ uploadResult = null /\ selectedFile = ran.file
    /\ SettledForReplacedFile =>
          /\ stage \notin {"registering", "done"}
          /\ "registering" \notin { ran.stages[k] : k \in DOMAIN ran.stages }
          /\ uploadResult = null

----------------------------------------------------------------------------
\* C35: handleUpload does nothing when no file is selected; with a file but an
\* empty wallet address it sets stage 'error' without calling uploadToIpfs;
\* otherwise it sets 'uploading' and then, when the upload succeeds,
\* 'registering' and 'done', and when it fails 'error' with a non-empty
\* message; 'registering' and 'done' are never reached without a successful
\* upload before.
C35_StageMachine ==
    /\ \A wallet \in {"", handleConnect} :
          UploadOf(null, wallet) = Ran([Page EXCEPT !.selectedFile = null], << >>, << >>, << >>)
    /\ \A file \in Files :
          LET r == UploadOf(file, "")
          IN  /\ r.stages = << "error" >> /\ r.page.stage = "error"
              /\ r.called = << >> /\ r.pending = << >>
              /\ r.page.errorMessage # ""
    /\ \A file \in Files :
          LET r == UploadOf(file, handleConnect)
          IN  /\ r.called = << file >>
              /\ Head(r.stages) = "uploading"
              /\ IF file \in Sendable
                 THEN r.stages = << "uploading" >> /\ r.pending = << file >>
                      /\ r.page.stage = "uploading" /\ r.page.errorMessage = ""
                 ELSE r.stages = << "uploading", "error" >> /\ r.pending = << >>
                      /\ r.page.stage = "error" /\ r.page.errorMessage # ""
    /\ \A file \in Sendable : \A outcome \in FetchOutcomes(file) :
          LET r == ResumeOf(file, outcome)
          IN  IF ~outcome.rejected /\ outcome.ok
              THEN r.stages = << "registering", "done" >> /\ r.page.stage = "done"
                   /\ r.page.uploadResult = outcome.json
              ELSE r.stages = << "error" >> /\ r.page.stage = "error"
                   /\ r.page.errorMessage # "" /\ r.page.uploadResult = uploadResult
    /\ ran.op = "handleUpload" =>
          IF walletAddress = ""
          THEN stage = "error" /\ ran.called = << >> /\ errorMessage # ""
          ELSE ran.called = << selectedFile >> /\ stage \in {"uploading", "error"}
    /\ \A k \in 1..Len(uploads) : uploads[k] \in Sendable
    /\ stage = "uploading" => uploads # << >> /\ uploads[Len(uploads)] = selectedFile
    /\ StagesSet(ran) \cap {"registering", "done"} # {} =>
          ran.op = "settled" /\ uploadResult = IpfsUploadResult(ran.file)
    /\ stage \in {"registering", "done"} => uploadResult # null
    /\ stage = "error" => errorMessage # ""

C35_Witness ==
    /\ ran = [op |-> "settled", stages |-> << "registering", "done" >>, called |-> << >>,
              file |-> selectedFile]
    /\ stage = "done"
    /\ walletAddress = handleConnect

----------------------------------------------------------------------------
(* Vocabulary of the backend *)

\* The request being handled is a POST /upload.
IsUpload == request # null /\ request.method = "POST" /\ request.pathname = "/upload"

\* The size of the whole body the client sends
BodySize == Sum(request.chunks)

\* The status the request was answered with is code.
AnsweredWith(code) == position = "answered" /\ response.statusCode = code

----------------------------------------------------------------------------
\* C36: POST /upload pins to Pinata only when a JWT is configured and the body
\* has between 1 and MAX_FILE_SIZE bytes; otherwise it answers 500 (no JWT,
\* before any of the body is read), 413 (the cumulative size of the chunks
\* exceeds the maximum) or 400 (empty body) without calling Pinata; and a
\* failure of Pinata yields 502.
C36_UploadAnswers ==
    /\ pinned # << >> =>
          /\ IsUpload
          /\ PINATA_JWT # ""
          /\ BodySize \in 1..MAX_FILE_SIZE
          /\ pinned = << [size |-> BodySize] >>
    /\ position \in {"reading", "pinning"} => IsUpload /\ PINATA_JWT # ""
    /\ position = "pinning" => pinned # << >>
    /\ (IsUpload /\ position = "answered") =>
          /\ response.statusCode \in {500, 413, 400, 502, 200}
          /\ AnsweredWith(500) <=> (PINATA_JWT = "")
          /\ AnsweredWith(500) => (delivered = 0 /\ pinned = << >>)
          /\ AnsweredWith(413) <=> (PINATA_JWT # "" /\ BodySize > MAX_FILE_SIZE)
          /\ AnsweredWith(413) =>
                /\ pinned = << >>
                /\ totalSize = Sum(SubSeq(request.chunks, 1, delivered))
                /\ totalSize > MAX_FILE_SIZE
                /\ Sum(SubSeq(request.chunks, 1, delivered - 1)) <= MAX_FILE_SIZE
          /\ AnsweredWith(400) <=> (PINATA_JWT # "" /\ BodySize = 0)
          /\ AnsweredWith(400) => pinned = << >>
          /\ (PINATA_JWT # "" /\ BodySize \in 1..MAX_FILE_SIZE) =>
                /\ pinned # << >>
                /\ pinataSettled # null
                /\ AnsweredWith(502) <=> pinataSettled.rejected
                /\ AnsweredWith(200) <=> ~pinataSettled.rejected
                /\ AnsweredWith(200) => response.body.fileSize = BodySize

C36_Witness ==
    /\ IsUpload
    /\ PINATA_JWT # ""
    /\ Len(request.chunks) > 1
    /\ BodySize = MAX_FILE_SIZE
    /\ AnsweredWith(200)
    /\ pinned = << [size |-> MAX_FILE_SIZE] >>
====
